---------------------------- MODULE Spec2Model ----------------------------
(***************************************************************************)
(* Model of the FAQ tool's routing graph (src/nodes.py), the agent and its *)
(* guarded pandas tool (src/main.py) and the Streamlit handlers that drive *)
(* a query through the graph and resume it after approval (src/app.py).    *)
(*                                                                         *)
(* Texts are sequences of tokens, so that the f-string wrappings of the    *)
(* code are real concatenations.  Python's None is the value None for text *)
(* fields; the two approval flags are booleans whose FALSE stands for the  *)
(* unset default (the code only ever assigns True and tests truthiness).   *)
(* Confidences and distances are integers in thousandths.  The list shown  *)
(* as chat history belongs to the presentation layer and is not modelled;  *)
(* the conversation memory of the agent is.                                *)
(***************************************************************************)
EXTENDS Integers, Sequences, FiniteSets, TLC

\* ---------------------------------------------------------------- bounds
\* entries of the conversation memory (they are appended two at a time); a
\* submission or a code approval is taken only while its exchange still fits
MaxMemory == 4
\* results an index search returns at most (below the k of either store)
MaxResults == 2
\* intermediate steps the pandas agent reports at most
MaxSteps == 2
MaxScores == 3

\* ------------------------------------------------------ policy constants
Threshold == 800
MaxPossibleDistance == 2
Unit == 1000
K_REGULATIONS == 3
K_CALENDAR == 20

\* ------------------------------------------------------------------ texts
None == <<"<None>">>
NoneDocs == <<None>>
EmptyText == << >>
NoOutput == <<"No output.">>
Refusal == <<"Modification blocked: This query is not allowed. Only read-only queries are permitted.">>

Queries == { <<"show", "grades">>, <<"drop", "rows">> }
AgentOutputs == { <<"answer">> }
PandasOutputs == { EmptyText, <<"result">> }
Codes == { <<"df.head()">>, <<"df.drop()">> }
Edits == { EmptyText, <<"E">> }
Errors == { "timeout" }
Distances == { 0, 800 }

\* ------------------------------------------------------------ tool names
CALENDAR_TOOL == "Calendar events retriever"
DATETIME_TOOL == "Current Date and Time tool"
PANDAS_TOOL == "Pandas student Data Frame Tool"
REGULATIONS_TOOL == "University regulations retriever"
UNKNOWN_TOOL == "Some other tool"
AGENT_FINISH == "AgentFinish"

KnownTools == { CALENDAR_TOOL, DATETIME_TOOL, PANDAS_TOOL, REGULATIONS_TOOL }
PlanResults == { AGENT_FINISH, UNKNOWN_TOOL } \cup KnownTools

\* ---------------------------------------------------------------- helpers
Put(f, k, v) == [x \in (DOMAIN f) \cup {k} |-> IF x = k THEN v ELSE f[x]]
Del(f, k) == [x \in (DOMAIN f) \ {k} |-> f[x]]
Last(s) == s[Len(s)]
Falsy(t) == t = None \/ t = EmptyText
OrElse(t, d) == IF Falsy(t) THEN d ELSE t
Ok(v) == [status |-> "ok", value |-> v]
Raised(e) == [status |-> "raise", value |-> e]
Call(c, i, r) == [callee |-> c, input |-> i, result |-> r]
\* similarity_search_with_score(query, k=k) on a vector store
SearchCall(store, query, k, r) ==
    [callee |-> store, input |-> query, k |-> k, result |-> r]

\* ------------------------------------------------------------- GraphState
GraphState(q) ==
    [ query |-> q,
      retrieved |-> NoneDocs,
      intermediate_response |-> None,
      metadata |-> << >>,
      output |-> None,
      context |-> None,
      hitl_ui_needed |-> FALSE,
      code_review_needed |-> FALSE,
      selected_tool |-> "<None>" ]

\* get_current_datetime: strftime("%Y-%m-%d %H:%M:%S") of the clock
Timestamps == { <<"2025-01-01 09:00:00">>, <<"2025-06-30 23:59:59">> }
get_current_datetime(query) == Timestamps

\* --------------------------------------------------------------- messages
HumanMessage(t) == [type |-> "human", content |-> t]
AIMessage(t) == [type |-> "ai", content |-> t]

\* ------------------------------------------------- dispatch (decide_route)
decide_route_open(plan) ==
    IF plan = AGENT_FINISH THEN <<"None", "default_node">>
    ELSE IF plan = CALENDAR_TOOL THEN <<plan, "calendar_node">>
    ELSE IF plan = DATETIME_TOOL THEN <<plan, "date_time_node">>
    ELSE IF plan = PANDAS_TOOL THEN <<plan, "pandas_node">>
    ELSE IF plan = REGULATIONS_TOOL THEN <<plan, "retrieve">>
    ELSE <<plan, plan>>

decide_route(plan) ==
    IF plan = AGENT_FINISH THEN <<"None", "default_node">>
    ELSE IF plan = CALENDAR_TOOL THEN <<plan, "calendar_node">>
    ELSE IF plan = DATETIME_TOOL THEN <<plan, "date_time_node">>
    ELSE IF plan = PANDAS_TOOL THEN <<plan, "pandas_node">>
    ELSE IF plan = REGULATIONS_TOOL THEN <<plan, "retrieve">>
    ELSE <<plan, "default_node">>

EdgeMap_clock_answers ==
    ("retrieve" :> "regulations_retrieve") @@
    ("pandas_node" :> "pandas_code_review") @@
    ("calendar_node" :> "calendar_retrieve") @@
    ("date_time_node" :> "default_node") @@
    ("default_node" :> "default_node") @@
    ("<None>" :> "END")

\* the path map of the conditional edge leaving "route"
EdgeMap ==
    ("retrieve" :> "regulations_retrieve") @@
    ("pandas_node" :> "pandas_code_review") @@
    ("calendar_node" :> "calendar_retrieve") @@
    ("date_time_node" :> "END") @@
    ("default_node" :> "default_node") @@
    ("<None>" :> "END")

\* ------------------------------------------ structured-data agent and guard
RECURSIVE SeqsUpTo(_, _)
SeqsUpTo(S, n) ==
    IF n = 0 THEN { << >> }
    ELSE LET shorter == SeqsUpTo(S, n - 1)
         IN shorter \cup { Append(s, x) : s \in { t \in shorter : Len(t) = n - 1 }, x \in S }

\* what pandas_agent.invoke can give back: a fault, or an output with the
\* tool inputs of its intermediate steps (none when the agent reports none)
PandasResults ==
    { Raised(e) : e \in Errors } \cup
    { Ok([output |-> o, intermediate_steps |-> st]) :
        o \in PandasOutputs, st \in SeqsUpTo(Codes, MaxSteps) }

MutatingTokens == { "drop", "df.drop()" }
Mutating(t) == \E i \in 1..Len(t) : t[i] \in MutatingTokens

\* the classifier chain: prompt | llm | StrOutputParser
classifier(query) == IF Mutating(query) THEN <<"MODIFY">> ELSE <<"SAFE">>

Contains(t, tok) == \E i \in 1..Len(t) : t[i] = tok

\* the runs of safe_query_execution(query): the calls made and the result
safe_query_execution(query) ==
    LET classification_result == classifier(query)
        c1 == Call("classifier", query, Ok(classification_result))
    IN IF Contains(classification_result, "SAFE")
       THEN \* the result is only handed back to the executor: one result
            \* per outcome and output is drawn
            { [calls |-> <<c1, Call("pandas_agent", query, r)>>, result |-> r] :
                r \in { x \in PandasResults :
                           x.status = "ok" => x.value.intermediate_steps = << >> } }
       ELSE { [calls |-> <<c1>>, result |-> Ok(Refusal)] }

\* ------------------------------------------------------ the agent executor
\* The runs of agent.invoke({"input": guided}): the executor answers without
\* a tool or first uses the pandas tool on an input of its choosing; a fault
\* of the model or of the tool surfaces as a fault of the call.
AgentInvoke(guided) ==
    LET c0(r) == Call("agent.invoke", guided, r)
        direct ==
            { [ok |-> TRUE, output |-> o, err |-> "none", calls |-> <<c0(Ok(o))>>] :
                o \in AgentOutputs } \cup
            { [ok |-> FALSE, output |-> None, err |-> e, calls |-> <<c0(Raised(e))>>] :
                e \in Errors }
        viaTool(t) ==
            UNION { IF s.result.status = "raise"
                    THEN { [ok |-> FALSE, output |-> None, err |-> s.result.value,
                            calls |-> <<c0(s.result)>> \o s.calls] }
                    ELSE { [ok |-> TRUE, output |-> o, err |-> "none",
                            calls |-> <<c0(Ok(o))>> \o s.calls] : o \in AgentOutputs }
                  : s \in safe_query_execution(t) }
    IN direct \cup UNION { viaTool(t) : t \in Queries }

\* ConversationBufferMemory.save_context, done by the executor on success
SaveContext(mem, input, output) ==
    mem \o <<HumanMessage(input), AIMessage(output)>>

\* ------------------------------------------------------------- retrieval
Min(a, b) == IF a < b THEN a ELSE b
Max(a, b) == IF a > b THEN a ELSE b

\* the i-th chunk of an index
Chunk(i) == <<"chunk", ToString(i)>>

\* similarity_search_with_score(query, k): at most k (doc, score) pairs,
\* best match (smallest distance) first
SearchResults(k) ==
    { [i \in 1..Len(d) |-> [doc |-> Chunk(i), score |-> d[i]]] :
        d \in { x \in SeqsUpTo(Distances, Min(k, MaxResults)) :
                   \A i \in 1..(Len(x) - 1) : x[i] <= x[i + 1] } }

RECURSIVE Sum(_)
Sum(s) == IF s = << >> THEN 0 ELSE s[1] + Sum(Tail(s))

\* round(a / n) to the nearest integer, ties to even (Python's round)
RoundDiv(a, n) ==
    LET q == a \div n
        r == a % n
    IN IF 2 * r < n THEN q
       ELSE IF 2 * r > n THEN q + 1
       ELSE IF q % 2 = 0 THEN q ELSE q + 1

normalized_scores_unclamped(scores) ==
    [i \in 1..Len(scores) |-> Unit - (scores[i] \div MaxPossibleDistance)]

normalized_scores(scores) ==
    [i \in 1..Len(scores) |-> Max(0, Unit - (scores[i] \div MaxPossibleDistance))]

Confidence(scores) ==
    RoundDiv(Sum(normalized_scores(scores)), Len(scores))

RECURSIVE JoinDocs(_)
JoinDocs(docs) ==
    IF docs = << >> THEN EmptyText
    ELSE IF Len(docs) = 1 THEN docs[1]
    ELSE docs[1] \o <<"\n\n">> \o JoinDocs(Tail(docs))

\* dict.get(key, default) on the metadata mapping
Get(m, k, d) == IF k \in DOMAIN m THEN m[k] ELSE d

VARIABLES
    state,          \* the GraphState threaded through the current run
    pc,             \* the graph node about to run, "END", or "idle"
    memory,         \* university_agent.memory.chat_memory.messages
    session_state,  \* st.session_state: last_query, last_response
    fault,          \* the exception that ended the last handler, or "none"
    lastAction,     \* history: the node or handler that ran last
    arg,            \* history: the text handed to the last handler
    calls,          \* history: the collaborator calls made by lastAction
    memoryAtStart,  \* history: memory when the current run started
    nodesRun        \* history: the nodes run so far in the current run

vars == <<state, pc, memory, session_state, fault, lastAction, arg, calls,
          memoryAtStart, nodesRun>>

Init ==
    /\ state = GraphState(EmptyText)
    /\ pc = "idle"
    /\ memory = << >>
    /\ session_state = << >>
    /\ fault = "none"
    /\ lastAction = "init"
    /\ arg = EmptyText
    /\ calls = << >>
    /\ memoryAtStart = << >>
    /\ nodesRun = << >>

\* ------------------------------------------------------------ bookkeeping
\* a node (or handler) that ran to its end, and one that raised
Ran(name, cs) ==
    /\ lastAction' = name
    /\ calls' = cs
    /\ nodesRun' = Append(nodesRun, name)
    /\ fault' = "none"

\* an exception leaves graph.invoke and _handle_query_submission: the script
\* run ends at src/app.py:76, nothing of the run is stored
Faulted(name, cs, e) ==
    /\ lastAction' = name
    /\ calls' = cs
    /\ nodesRun' = Append(nodesRun, name)
    /\ fault' = e
    /\ pc' = "idle"
    /\ UNCHANGED <<state, session_state>>

\* ------------------------------------------------------- generate_response
\* "Submit" pressed with a non-empty query: _generate_response hands a fresh
\* GraphState to the compiled graph, whose entry point is "route"
generate_response(q) ==
    /\ pc = "idle"
    /\ Len(memory) + 2 <= MaxMemory
    /\ state' = GraphState(q)
    /\ pc' = "route"
    /\ fault' = "none"
    /\ lastAction' = "generate_response"
    /\ arg' = q
    /\ calls' = << >>
    /\ memoryAtStart' = memory
    /\ nodesRun' = << >>
    /\ UNCHANGED <<memory, session_state>>

\* ------------------------------------------------ decision_routing_node
decision_routing_node_invoking ==
    /\ pc = "route"
    /\ \E a \in AgentInvoke(state.query) :
         IF a.ok
         THEN LET tr == decide_route(AGENT_FINISH)
              IN /\ state' = [state EXCEPT
                                 !.metadata = [next_node |-> tr[2]],
                                 !.selected_tool = tr[1]]
                 /\ memory' = SaveContext(memory, state.query, a.output)
                 /\ pc' = EdgeMap[tr[2]]
                 /\ Ran("route", a.calls)
                 /\ UNCHANGED session_state
         ELSE /\ Faulted("route", a.calls, a.err)
              /\ UNCHANGED memory
    /\ UNCHANGED <<memoryAtStart, arg>>

decision_routing_node ==
    /\ pc = "route"
    /\ \E r \in { Ok(p) : p \in PlanResults } \cup { Raised(e) : e \in Errors } :
         LET cs == <<Call("plan", state.query, r)>>
         IN IF r.status = "raise"
            THEN Faulted("route", cs, r.value)
            ELSE LET tr == decide_route(r.value)
                     tool == tr[1]
                     route == tr[2]
                 IN IF route \in DOMAIN EdgeMap
                    THEN /\ state' = [state EXCEPT
                                        !.metadata = [next_node |-> route],
                                        !.selected_tool = tool]
                         /\ pc' = EdgeMap[route]
                         /\ Ran("route", cs)
                         /\ UNCHANGED session_state
                    ELSE Faulted("route", cs, "KeyError")
    /\ UNCHANGED <<memory, memoryAtStart, arg>>

\* ------------------------------------------------------------ default_node
default_node_requery ==
    /\ pc = "default_node"
    /\ LET guided_query ==
               <<"Without using any tools respond to this query">> \o state.query
       IN \E a \in AgentInvoke(guided_query) :
            IF a.ok
            THEN /\ state' = [state EXCEPT !.output = a.output,
                                           !.query = guided_query]
                 /\ memory' = SaveContext(memory, guided_query, a.output)
                 /\ pc' = "END"
                 /\ Ran("default_node", a.calls)
                 /\ UNCHANGED session_state
            ELSE /\ Faulted("default_node", a.calls, a.err)
                 /\ UNCHANGED memory
    /\ UNCHANGED <<memoryAtStart, arg>>

default_node ==
    /\ pc = "default_node"
    /\ LET guided_query ==
               <<"Without using any tools respond to this query">> \o state.query
       IN \E a \in AgentInvoke(guided_query) :
            IF a.ok
            THEN /\ state' = [state EXCEPT !.output = a.output]
                 /\ memory' = SaveContext(memory, guided_query, a.output)
                 /\ pc' = "END"
                 /\ Ran("default_node", a.calls)
                 /\ UNCHANGED session_state
            ELSE /\ Faulted("default_node", a.calls, a.err)
                 /\ UNCHANGED memory
    /\ UNCHANGED <<memoryAtStart, arg>>

\* ------------------------------------------------------- retrieval nodes
\* the node once the search has answered with r
RetrievalStep(name, store, k, r) ==
    LET cs == <<SearchCall(store, state.query, k, r)>>
    IN IF r.status = "raise"
       THEN Faulted(name, cs, r.value)
       ELSE LET docs_with_scores == r.value
                retrieved_docs ==
                    [i \in 1..Len(docs_with_scores) |-> docs_with_scores[i].doc]
                scores ==
                    [i \in 1..Len(docs_with_scores) |-> docs_with_scores[i].score]
            IN IF Len(scores) = 0
               THEN Faulted(name, cs, "ZeroDivisionError")
               ELSE /\ state' = [state EXCEPT
                                   !.retrieved = retrieved_docs,
                                   !.intermediate_response =
                                       <<"Documents retrieved based on FAISS search.">>,
                                   !.metadata = [confidence |-> Confidence(scores)]]
                    /\ pc' = "generate"
                    /\ Ran(name, cs)
                    /\ UNCHANGED session_state

RetrievalNode(name, store, k) ==
    /\ pc = name
    /\ \E r \in { Ok(d) : d \in SearchResults(k) } \cup { Raised(e) : e \in Errors } :
         RetrievalStep(name, store, k, r)
    /\ UNCHANGED <<memory, memoryAtStart, arg>>

regulations_rag_retrieval_node ==
    /\ pc = "regulations_retrieve"
    /\ RetrievalNode("regulations_retrieve", "vector_store_regulations", K_REGULATIONS)

calendar_rag_retrieval_node ==
    /\ pc = "calendar_retrieve"
    /\ RetrievalNode("calendar_retrieve", "vector_store_calendar", K_CALENDAR)

\* ------------------------------------------- rag_answer_generation_node
rag_answer_generation_node_no_context ==
    /\ pc = "generate"
    /\ LET context == JoinDocs(state.retrieved)
           tool == IF state.selected_tool \in {"<None>", ""}
                   THEN "a relevant tool" ELSE state.selected_tool
           guided_query ==
               <<"Use the tool", tool,
                 "to answer this question. Now, answer the user query:">> \o state.query
       IN \E a \in AgentInvoke(guided_query) :
            /\ IF a.ok
               THEN /\ state' = [state EXCEPT !.output = a.output, !.context = context]
                    /\ memory' = SaveContext(memory, guided_query, a.output)
               ELSE /\ state' = [state EXCEPT
                                   !.output = <<"Agent failed while trying to use",
                                                tool, ":", a.err>>]
                    /\ UNCHANGED memory
            /\ Ran("generate", a.calls)
    /\ pc' = "rag_final"
    /\ UNCHANGED <<session_state, memoryAtStart, arg>>

rag_answer_generation_node_unguarded ==
    /\ pc = "generate"
    /\ LET context == JoinDocs(state.retrieved)
           tool == IF state.selected_tool \in {"<None>", ""}
                   THEN "a relevant tool" ELSE state.selected_tool
           guided_query ==
               <<"Use the tool", tool,
                 "to answer this question. Now, answer the user query:">> \o state.query
       IN \E a \in AgentInvoke(guided_query) :
            IF a.ok
            THEN /\ state' = [state EXCEPT !.output = a.output, !.context = context]
                 /\ memory' = SaveContext(memory, guided_query, a.output)
                 /\ pc' = "rag_final"
                 /\ Ran("generate", a.calls)
                 /\ UNCHANGED session_state
            ELSE /\ Faulted("generate", a.calls, a.err)
                 /\ UNCHANGED memory
    /\ UNCHANGED <<memoryAtStart, arg>>

rag_answer_generation_node ==
    /\ pc = "generate"
    /\ LET context == JoinDocs(state.retrieved)
           tool == IF state.selected_tool \in {"<None>", ""}
                   THEN "a relevant tool" ELSE state.selected_tool
           guided_query ==
               <<"Use the tool", tool,
                 "to answer this question. Now, answer the user query:">> \o state.query
       IN \E a \in AgentInvoke(guided_query) :
            /\ IF a.ok
               THEN /\ state' = [state EXCEPT !.output = a.output, !.context = context]
                    /\ memory' = SaveContext(memory, guided_query, a.output)
               ELSE /\ state' = [state EXCEPT
                                   !.output = <<"Agent failed while trying to use",
                                                tool, ":", a.err>>,
                                   !.context = context]
                    /\ UNCHANGED memory
            /\ Ran("generate", a.calls)
    /\ pc' = "rag_final"
    /\ UNCHANGED <<session_state, memoryAtStart, arg>>

\* --------------------------------------------------------------- rag_final
rag_final_low(st) ==
    IF Get(st.metadata, "confidence", Unit) < Threshold - 300
    THEN [st EXCEPT !.hitl_ui_needed = TRUE]
    ELSE st

rag_final_inclusive(st) ==
    IF Get(st.metadata, "confidence", Unit) <= Threshold
    THEN [st EXCEPT !.hitl_ui_needed = TRUE]
    ELSE st

rag_final_both(st) ==
    IF Get(st.metadata, "confidence", Unit) < Threshold
    THEN [st EXCEPT !.hitl_ui_needed = TRUE, !.code_review_needed = TRUE]
    ELSE st

rag_final(st) ==
    IF Get(st.metadata, "confidence", Unit) < Threshold
    THEN [st EXCEPT !.hitl_ui_needed = TRUE]
    ELSE st

rag_final_node ==
    /\ pc = "rag_final"
    /\ state' = rag_final(state)
    /\ pc' = "END"
    /\ Ran("rag_final", << >>)
    /\ UNCHANGED <<memory, session_state, memoryAtStart, arg>>

\* ------------------------------------------------------ pandas_code_review
pandas_code_review ==
    /\ pc = "pandas_code_review"
    /\ \E r \in PandasResults :
         LET cs == <<Call("pandas_agent", state.query, r)>>
         IN IF r.status = "raise"
            THEN Faulted("pandas_code_review", cs, r.value)
            ELSE LET actions == r.value.intermediate_steps
                     answer == r.value.output
                 IN IF actions = << >>
                    THEN Faulted("pandas_code_review", cs, "IndexError")
                    ELSE /\ state' = [state EXCEPT
                                        !.context = answer,
                                        !.output = Last(actions),
                                        !.code_review_needed = TRUE]
                         /\ pc' = "END"
                         /\ Ran("pandas_code_review", cs)
                         /\ UNCHANGED session_state
    /\ UNCHANGED <<memory, memoryAtStart, arg>>

\* --------------------------------------------- _handle_query_submission
\* generate_response returned: the rest of the Submit branch
handle_query_submission ==
    /\ pc = "END"
    /\ LET query == state.query
           response == state
       IN session_state' = Put(Put(session_state, "last_query", query),
                               "last_response", response)
    /\ pc' = "idle"
    /\ lastAction' = "handle_query_submission"
    /\ calls' = << >>
    /\ fault' = "none"
    /\ UNCHANGED <<state, memory, arg, memoryAtStart, nodesRun>>

\* ------------------------------------------------------- code execution
\* the runs of pandas_execute_user_code(state): resulting state and calls
pandas_execute_user_code_silent(st) ==
    LET code_as_text == st.query
        query == <<"Execute the following code">> \o code_as_text
    IN { [state |-> [st EXCEPT !.output =
                        IF r.status = "ok" THEN r.value.output ELSE st.output],
          calls |-> <<Call("pandas_agent", query, r)>>] : r \in PandasResults }

pandas_execute_user_code(st) ==
    LET code_as_text == st.query
        query == <<"Execute the following code">> \o code_as_text
    IN { [state |-> [st EXCEPT !.output =
                        IF r.status = "ok" THEN r.value.output
                        ELSE <<"Agent failed to execute code via Pandas agent:", r.value>>],
          calls |-> <<Call("pandas_agent", query, r)>>] : r \in PandasResults }

generate_code_response(code) ==
    LET query == <<"execute this code on the dataframe:">> \o code
    IN pandas_execute_user_code(GraphState(query))

\* ---------------------------------------------------- _handle_approval_ui
\* "Approve" pressed on a pending text approval, the text area holding
\* edited_response
approve_text(edited_response) ==
    /\ pc = "idle"
    /\ "last_response" \in DOMAIN session_state
    /\ session_state["last_response"].hitl_ui_needed
    /\ IF memory = << >>
       THEN \* messages[-1] = ... on an empty list: the cleanup is not reached
            /\ fault' = "IndexError"
            /\ UNCHANGED <<memory, session_state>>
       ELSE /\ fault' = "none"
            /\ memory' = [memory EXCEPT
                            ![Len(memory)] = AIMessage(OrElse(edited_response, NoOutput))]
            /\ session_state' = Del(Del(session_state, "last_query"), "last_response")
    /\ lastAction' = "handle_approval_ui"
    /\ arg' = edited_response
    /\ calls' = << >>
    /\ UNCHANGED <<state, pc, memoryAtStart, nodesRun>>

\* ---------------------------------------------------- _handle_code_review
\* add_user_message(query) then add_ai_message(output or "No output.")
add_messages_swapped(mem, query, output) ==
    mem \o <<AIMessage(OrElse(output, NoOutput)), HumanMessage(query)>>

add_messages(mem, query, output) ==
    mem \o <<HumanMessage(query), AIMessage(OrElse(output, NoOutput))>>

\* "Approve" pressed on a pending code review, the text area holding
\* edited_code
approve_code_unflagged(edited_code) ==
    /\ pc = "idle"
    /\ "last_response" \in DOMAIN session_state
    /\ Len(memory) + 2 <= MaxMemory
    /\ \E x \in generate_code_response(edited_code) :
         LET query == session_state["last_query"]
             code_response == x.state
         IN /\ memory' = add_messages(memory, query, code_response.output)
            /\ session_state' = Del(Del(session_state, "last_query"), "last_response")
            /\ calls' = <<Call("generate_code_response", edited_code,
                               Ok(code_response.output))>> \o x.calls
    /\ fault' = "none"
    /\ lastAction' = "handle_code_review"
    /\ arg' = edited_code
    /\ UNCHANGED <<state, pc, memoryAtStart, nodesRun>>

approve_code(edited_code) ==
    /\ pc = "idle"
    /\ "last_response" \in DOMAIN session_state
    /\ session_state["last_response"].code_review_needed
    /\ Len(memory) + 2 <= MaxMemory
    /\ \E x \in generate_code_response(edited_code) :
         LET query == session_state["last_query"]
             code_response == x.state
         IN /\ memory' = add_messages(memory, query, code_response.output)
            /\ session_state' = Del(Del(session_state, "last_query"), "last_response")
            /\ calls' = <<Call("generate_code_response", edited_code,
                               Ok(code_response.output))>> \o x.calls
    /\ fault' = "none"
    /\ lastAction' = "handle_code_review"
    /\ arg' = edited_code
    /\ UNCHANGED <<state, pc, memoryAtStart, nodesRun>>

\* the value the review text area starts from
llm_response ==
    IF "last_response" \in DOMAIN session_state
    THEN session_state["last_response"].output
    ELSE EmptyText

handle_approval_ui ==
    /\ pc = "idle"
    /\ \E edited_response \in Edits \cup {llm_response} : approve_text(edited_response)

handle_code_review ==
    /\ pc = "idle"
    /\ \E edited_code \in Codes : approve_code(edited_code)

\* ------------------------------------------------------------------- Next
Next ==
    \/ \E q \in Queries : generate_response(q)
    \/ decision_routing_node
    \/ default_node
    \/ regulations_rag_retrieval_node
    \/ calendar_rag_retrieval_node
    \/ rag_answer_generation_node
    \/ rag_final_node
    \/ pandas_code_review
    \/ handle_query_submission
    \/ handle_approval_ui
    \/ handle_code_review

Spec == Init /\ [][Next]_vars

Nodes == { "route", "default_node", "regulations_retrieve", "calendar_retrieve",
           "generate", "rag_final", "pandas_code_review" }

TypeOK ==
    /\ pc \in Nodes \cup {"idle", "END"}
    /\ Len(memory) <= MaxMemory
    /\ DOMAIN session_state \subseteq {"last_query", "last_response"}

\* ================================================================= claims
\* ------------------------------------------------ vocabulary of the claims
FiveRoutes == {"retrieve", "calendar_node", "pandas_node", "date_time_node", "default_node"}

\* the planner call of the dispatch node that ran last, and what it gave
PlanCall == calls[1]
PlanReturned == lastAction = "route" /\ PlanCall.result.status = "ok"
PlanFailed == lastAction = "route" /\ PlanCall.result.status = "raise"

\* a retrieval run has just passed the confidence gate
GateHalted == pc = "END" /\ lastAction = "rag_final"

\* the generation node caught a fault of its oracle call
GenerationFailed(st) ==
    Len(st.output) > 0 /\ st.output[1] = "Agent failed while trying to use"

\* mem is base followed by one user entry and the assistant entry text
OneExchangeAdded(mem, base, text) ==
    /\ Len(mem) = Len(base) + 2
    /\ SubSeq(mem, 1, Len(base)) = base
    /\ mem[Len(base) + 1].type = "human"
    /\ mem[Len(base) + 2] = AIMessage(text)

\* sub occurs in t as a run of consecutive tokens
InText(sub, t) ==
    \E i \in 0..(Len(t) - Len(sub)) : SubSeq(t, i + 1, i + Len(sub)) = sub

ApprovalUiShown ==
    /\ "last_response" \in DOMAIN session_state
    /\ \/ session_state["last_response"].hitl_ui_needed
       \/ session_state["last_response"].code_review_needed

\* C1: routing is total - whatever the planner returns (a final answer, one
\* of the four known tools, an unrecognized tool), the dispatch node yields
\* one of the five routes, the conditional edge has a successor for it, and
\* a final answer or an unrecognized tool goes to the direct-answer node.
C1_RoutingTotal ==
    PlanReturned =>
        /\ fault = "none"
        /\ state.metadata["next_node"] \in FiveRoutes
        /\ state.metadata["next_node"] \in DOMAIN EdgeMap
        /\ pc = EdgeMap[state.metadata["next_node"]]
        /\ (PlanCall.result.value \notin KnownTools => pc = "default_node")

C1_Witness ==
    /\ PlanReturned
    /\ PlanCall.result.value = UNKNOWN_TOOL
    /\ pc = "default_node"

\* C2: when the planning call fails, the run takes the direct-answer edge
\* and no fault reaches the caller.
C2_PlanningFailureFailsOpen ==
    PlanFailed => (fault = "none" /\ pc = "default_node")

\* C3 (as claimed): a retrieval run whose confidence is below 0.8 halts
\* with hitl_ui_needed set and has appended nothing to the memory.
C3_LowConfidenceAppendsNothing ==
    (GateHalted /\ state.metadata["confidence"] < Threshold) =>
        (state.hitl_ui_needed /\ memory = memoryAtStart)

\* C3 (amended): a retrieval run whose confidence is below 0.8 halts with
\* hitl_ui_needed set; by then the generation node has appended a user entry
\* and the assistant answer when its oracle call succeeded, nothing when it
\* failed.
C3_LowConfidenceHalts ==
    (GateHalted /\ state.metadata["confidence"] < Threshold) =>
        /\ state.hitl_ui_needed
        /\ IF GenerationFailed(state)
           THEN memory = memoryAtStart
           ELSE OneExchangeAdded(memory, memoryAtStart, state.output)

C3_Witness ==
    /\ GateHalted
    /\ state.metadata["confidence"] < Threshold
    /\ state.hitl_ui_needed
    /\ Len(memory) = Len(memoryAtStart) + 2

\* C4 (as claimed): a retrieval run whose confidence is at least 0.8
\* finalizes with no approval flag and exactly one new memory entry.
C4_HighConfidenceAppendsOne ==
    (GateHalted /\ state.metadata["confidence"] >= Threshold) =>
        /\ ~state.hitl_ui_needed
        /\ ~state.code_review_needed
        /\ Len(memory) = Len(memoryAtStart) + 1

\* C4 (amended): a retrieval run whose confidence is at least 0.8 (0.8
\* included) finalizes with no approval flag; the memory has gained a user
\* entry and the assistant answer when the oracle call of the generation
\* node succeeded, nothing when it failed.
C4_HighConfidenceFinalizes ==
    (GateHalted /\ state.metadata["confidence"] >= Threshold) =>
        /\ ~state.hitl_ui_needed
        /\ ~state.code_review_needed
        /\ IF GenerationFailed(state)
           THEN memory = memoryAtStart
           ELSE OneExchangeAdded(memory, memoryAtStart, state.output)

C4_Witness ==
    /\ GateHalted
    /\ state.metadata["confidence"] = Threshold
    /\ ~state.hitl_ui_needed
    /\ Len(memory) = Len(memoryAtStart) + 2

\* C5: every run routed to the pandas tool halts with code_review_needed
\* set, output the last generated code, context the agent's answer, and no
\* confidence in the metadata.
C5_CodeReviewAlwaysHalts ==
    lastAction = "pandas_code_review" =>
        /\ fault = "none"
        /\ pc = "END"
        /\ state.code_review_needed
        /\ state.output = Last(calls[1].result.value.intermediate_steps)
        /\ state.context = calls[1].result.value.output
        /\ "confidence" \notin DOMAIN state.metadata

\* C6: every invocation of the pandas agent is preceded, in the same
\* handler, by a classifier call on the same input that returned SAFE.
C6_GuardNeverBypassed ==
    \A i \in 1..Len(calls) :
        calls[i].callee = "pandas_agent" =>
            \E j \in 1..(i - 1) :
                /\ calls[j].callee = "classifier"
                /\ calls[j].input = calls[i].input
                /\ Contains(calls[j].result.value, "SAFE")

\* C7: a query routed to the pandas tool that the classifier labels MODIFY
\* is refused: output is the fixed refusal text and the run does not halt
\* for code review.
C7_ModifyQueryRefused ==
    (pc = "END" /\ lastAction = "pandas_code_review"
        /\ ~Contains(classifier(state.query), "SAFE")) =>
        (state.output = Refusal /\ ~state.code_review_needed)

\* C8: Approve on a pending text approval with edited text E leaves E as
\* the last assistant entry of the memory, keeps the number of entries, and
\* does not invoke the oracle.  Stated for the non-empty E (an empty E is
\* stored as "No output.").
C8_TextApprovalReplacesLast ==
    [][ (lastAction' = "handle_approval_ui" /\ arg' # EmptyText) =>
          /\ fault' = "none"
          /\ memory' # << >>
          /\ Last(memory') = AIMessage(arg')
          /\ Len(memory') = Len(memory)
          /\ \A i \in 1..Len(calls') : calls'[i].callee # "agent.invoke" ]_vars

\* C9: Approve on a pending code review with edited code C calls
\* generate_code_response with C exactly once, then appends a user entry
\* with the original query and, right after it, an assistant entry with the
\* execution result.
C9_CodeApprovalAppendsExchange ==
    [][ lastAction' = "handle_code_review" =>
          /\ fault' = "none"
          /\ Cardinality({ i \in 1..Len(calls') :
                             calls'[i].callee = "generate_code_response" }) = 1
          /\ calls'[1].callee = "generate_code_response"
          /\ calls'[1].input = arg'
          /\ Len(memory') = Len(memory) + 2
          /\ SubSeq(memory', 1, Len(memory)) = memory
          /\ memory'[Len(memory) + 1].type = "human"
          /\ InText(session_state["last_response"].query,
                    memory'[Len(memory) + 1].content)
          /\ memory'[Len(memory) + 2].type = "ai"
          /\ InText(calls'[1].result.value, memory'[Len(memory) + 2].content) ]_vars

C9_Witness ==
    /\ lastAction = "handle_code_review"
    /\ arg = <<"df.head()">>
    /\ Len(memory) >= 2
    /\ memory[Len(memory) - 1] = HumanMessage(<<"drop", "rows">>)
    /\ Last(memory) = AIMessage(<<"result">>)

\* C10: after either Approve the pending state is gone (last_query and
\* last_response removed, no approval UI shown), and the next submission
\* starts from a fresh state.
C10_PendingStateCleared ==
    /\ lastAction \in {"handle_approval_ui", "handle_code_review"} =>
          /\ "last_query" \notin DOMAIN session_state
          /\ "last_response" \notin DOMAIN session_state
          /\ ~ApprovalUiShown
    /\ lastAction = "generate_response" => state = GraphState(arg)

\* ===================================================== clock-tool route

\* a run whose dispatch chose the clock tool
ClockRun == state.selected_tool = DATETIME_TOOL

\* C11: a run routed to the clock tool finalizes with its output set to a
\* timestamp-shaped string, as get_current_datetime produces; the output of
\* such a run is never left unset.
C11_ClockRunAnswersTimestamp ==
    (pc = "END" /\ ClockRun) =>
        /\ state.output # None
        /\ state.output \in get_current_datetime(state.query)

\* C12: a run routed to the clock tool goes from the dispatch node straight
\* to the terminal edge: no retrieval, generation, gate, direct-answer or
\* code-review node executes, and neither approval flag is set.
C12_ClockRunStraightToEnd ==
    ClockRun =>
        /\ pc \in {"END", "idle"}
        /\ nodesRun = <<"route">>
        /\ ~state.hitl_ui_needed
        /\ ~state.code_review_needed

C12_Witness ==
    /\ pc = "END"
    /\ ClockRun
    /\ lastAction = "route"
    /\ nodesRun = <<"route">>

\* ======================================================= halt invariant

\* C13: whenever a run halts, on any of the five routes, its output is set
\* and its state is exactly one of: output alone, output with the text
\* approval flag, output with the code approval flag.
C13_HaltInvariant ==
    pc = "END" =>
        /\ state.output # None
        /\ ~(state.hitl_ui_needed /\ state.code_review_needed)

\* C14: the text approval flag and the code approval flag are never both
\* set, in any state of a run or in the response kept for the session.
C14_FlagsExclusive ==
    /\ ~(state.hitl_ui_needed /\ state.code_review_needed)
    /\ "last_response" \in DOMAIN session_state =>
         ~(session_state["last_response"].hitl_ui_needed
             /\ session_state["last_response"].code_review_needed)

C14_Witness ==
    /\ GateHalted
    /\ state.hitl_ui_needed
    /\ ~state.code_review_needed
    /\ "last_response" \in DOMAIN session_state
    /\ session_state["last_response"].code_review_needed

\* ======================================================= fault containment

\* C15: no fault of a collaborator (the planner, an index search, the oracle
\* in the direct-answer or generation node, the pandas agent in the
\* code-review node, a pandas result without intermediate steps included)
\* escapes generate_response.
C15_NoFaultEscapes ==
    lastAction \in Nodes => fault = "none"

\* the search of the retrieval node that ran last returned no result
EmptySearch ==
    /\ lastAction \in {"regulations_retrieve", "calendar_retrieve"}
    /\ calls[1].result.status = "ok"
    /\ calls[1].result.value = << >>

\* C16: when a search returns zero results the retrieval node does not
\* fault and stores confidence 0.0.
C16_EmptyRetrievalIsZero ==
    EmptySearch =>
        /\ fault = "none"
        /\ Get(state.metadata, "confidence", Unit) = 0

\* ================================================ confidence of a search

\* Distances a search can return, in thousandths: squared L2 distances are
\* non-negative and not bounded by MaxPossibleDistance.
WideDistances == {0, 2, 800, 1998, 2000, 2002, 4000}

WideResults ==
    { [i \in 1..Len(ds) |-> [doc |-> Chunk(i), score |-> ds[i]]] :
        ds \in SeqsUpTo(WideDistances, MaxScores) }

\* A retrieval node whose search has just answered: the answer is held in
\* calls until the node goes on with it.
InitConfidence ==
    /\ \E q \in Queries :
         /\ state = [GraphState(q) EXCEPT !.selected_tool = REGULATIONS_TOOL,
                                          !.metadata = [next_node |-> "retrieve"]]
         /\ arg = q
         /\ \E name \in {"regulations_retrieve", "calendar_retrieve"} :
              /\ pc = name
              /\ \E docs_with_scores \in WideResults :
                   LET k == IF name = "regulations_retrieve"
                            THEN K_REGULATIONS ELSE K_CALENDAR
                   IN /\ Len(docs_with_scores) <= k
                      /\ calls = <<SearchCall(IF name = "regulations_retrieve"
                                              THEN "vector_store_regulations"
                                              ELSE "vector_store_calendar",
                                              q, k, Ok(docs_with_scores))>>
    /\ memory = << >>
    /\ session_state = << >>
    /\ fault = "none"
    /\ lastAction = "similarity_search_with_score"
    /\ memoryAtStart = << >>
    /\ nodesRun = <<"route">>

regulations_confidence ==
    /\ pc = "regulations_retrieve"
    /\ lastAction = "similarity_search_with_score"
    /\ RetrievalStep("regulations_retrieve", calls[1].callee, calls[1].k,
                     calls[1].result)
    /\ UNCHANGED <<memory, memoryAtStart, arg>>

calendar_confidence ==
    /\ pc = "calendar_retrieve"
    /\ lastAction = "similarity_search_with_score"
    /\ RetrievalStep("calendar_retrieve", calls[1].callee, calls[1].k,
                     calls[1].result)
    /\ UNCHANGED <<memory, memoryAtStart, arg>>

NextConfidence ==
    \/ regulations_confidence
    \/ calendar_confidence

SpecConfidence == InitConfidence /\ [][NextConfidence]_vars

\* a retrieval node has stored a confidence
ConfidenceStored ==
    /\ lastAction \in {"regulations_retrieve", "calendar_retrieve"}
    /\ fault = "none"

\* C17: for every list of distances a search returns, the confidence a
\* retrieval node stores (the average of max(0, 1 - d/2.0)) lies between
\* 0.0 and 1.0.
C17_ConfidenceInUnitRange ==
    ConfidenceStored =>
        /\ "confidence" \in DOMAIN state.metadata
        /\ 0 <= state.metadata["confidence"]
        /\ state.metadata["confidence"] <= Unit

\* a stored confidence whose list holds a distance beyond the largest
\* expected one
C17_Witness ==
    /\ ConfidenceStored
    /\ \E i \in 1..Len(calls[1].result.value) :
         calls[1].result.value[i].score > MaxPossibleDistance * Unit
    /\ state.metadata["confidence"] \in 0..Unit

\* ===================================================== generation failure

\* the oracle call of the generation node that ran last raised
GenerationCallRaised ==
    lastAction = "generate" /\ calls[1].result.status = "raise"

\* C18: when the oracle faults in the generation node, the node returns a
\* state whose output is a diagnostic naming the selected tool and the
\* failure reason, with context still the joined retrieved text; the run
\* then passes the gate and terminates, finalized or pending.
C18_GenerationFailureDiagnosed ==
    [][/\ GenerationCallRaised' =>
            /\ fault' = "none"
            /\ pc' = "rag_final"
            /\ state'.output[1] = "Agent failed while trying to use"
            /\ Contains(state'.output, state.selected_tool)
            /\ Contains(state'.output, calls'[1].result.value)
            /\ state'.context = JoinDocs(state.retrieved)
            /\ state'.retrieved = state.retrieved
       /\ (pc = "rag_final" /\ GenerationFailed(state)) =>
            /\ pc' = "END"
            /\ fault' = "none"
            /\ state'.output = state.output
            /\ state'.context = state.context
    ]_vars

C18_Witness ==
    /\ GateHalted
    /\ GenerationFailed(state)
    /\ state.hitl_ui_needed
    /\ state.context = JoinDocs(state.retrieved)
    /\ Len(state.retrieved) = 2

\* ========================================================= memory writes

\* C19: every generate_response run that ends finalized (neither flag set),
\* on any route, the direct-answer and clock-tool routes included, has
\* appended its answer to the conversation memory by the time it ends.
C19_FinalizedRunRemembered ==
    (pc = "END" /\ ~state.hitl_ui_needed /\ ~state.code_review_needed) =>
        /\ Len(memory) = Len(memoryAtStart) + 2
        /\ Last(memory) = AIMessage(state.output)

\* ================================================= generate_code_response

\* the pandas agent call made by the generate_code_response that ran last
CodeCall == calls[2]

\* C20: generate_code_response never propagates a fault: when the pandas
\* agent fails the returned output is a diagnostic string, otherwise it is
\* the agent's textual result.
C20_CodeResponseNeverFaults ==
    lastAction = "handle_code_review" =>
        /\ fault = "none"
        /\ calls[1].callee = "generate_code_response"
        /\ calls[1].result.status = "ok"
        /\ CodeCall.callee = "pandas_agent"
        /\ IF CodeCall.result.status = "raise"
           THEN calls[1].result.value =
                    <<"Agent failed to execute code via Pandas agent:",
                      CodeCall.result.value>>
           ELSE calls[1].result.value = CodeCall.result.value.output

C20_Witness ==
    /\ lastAction = "handle_code_review"
    /\ CodeCall.result.status = "raise"
    /\ calls[1].result.value[1] = "Agent failed to execute code via Pandas agent:"

\* ============================================== code execution sign-off

\* generate_code_response / pandas_execute_user_code was entered by the
\* operation that ran last
CodeExecuted ==
    \E i \in 1..Len(calls) :
        \/ calls[i].callee = "generate_code_response"
        \/ /\ calls[i].callee = "pandas_agent"
           /\ Len(calls[i].input) > 0
           /\ calls[i].input[1] = "Execute the following code"

PendingCodeApproval ==
    /\ "last_response" \in DOMAIN session_state
    /\ session_state["last_response"].code_review_needed

\* C21: the code-execution entry point (pandas_execute_user_code through
\* generate_code_response) is never executed as part of a generate_response
\* run; it is only invoked by an Approve action on a state that is pending
\* code approval.
C21_CodeExecutionNeedsSignOff ==
    [][/\ CodeExecuted' => lastAction' = "handle_code_review"
       /\ lastAction' = "handle_code_review" =>
            /\ pc = "idle"
            /\ PendingCodeApproval
            /\ CodeExecuted'
    ]_vars

C21_Witness ==
    /\ lastAction = "handle_code_review"
    /\ CodeExecuted
    /\ CodeCall.result.status = "ok"
    /\ nodesRun = <<"route", "pandas_code_review">>

\* ===================================================== context of a run

\* number of tokens before chunk i in the chunks joined with one separator
\* token between neighbours
RECURSIVE Offset(_, _)
Offset(docs, i) ==
    IF i = 1 THEN 0 ELSE Offset(docs, i - 1) + Len(docs[i - 1]) + 1

\* t is the chunks of docs in order, a blank line between neighbours
IsBlankLineJoin(t, docs) ==
    IF docs = << >> THEN t = EmptyText
    ELSE /\ Len(t) = Offset(docs, Len(docs)) + Len(docs[Len(docs)])
         /\ \A i \in 1..Len(docs) :
              SubSeq(t, Offset(docs, i) + 1, Offset(docs, i) + Len(docs[i])) = docs[i]
         /\ \A i \in 2..Len(docs) : t[Offset(docs, i)] = "\n\n"

\* the retrieval node that ran last stored the answer of its search
Retrieved ==
    /\ lastAction \in {"regulations_retrieve", "calendar_retrieve"}
    /\ fault = "none"

\* C22: on both retrieval paths, whenever the run halts (finalized or
\* pending text approval, a generation failure included), context is the
\* contents of the chunks retrieved in this run, in retrieval order, joined
\* with a blank-line separator, and is non-empty when a non-empty chunk was
\* retrieved; the calendar path searches with k = 20, the regulations path
\* with k = 3.
C22_ContextIsJoinedChunks ==
    [][/\ Retrieved' =>
            /\ calls'[1].callee = IF lastAction' = "regulations_retrieve"
                                  THEN "vector_store_regulations"
                                  ELSE "vector_store_calendar"
            /\ calls'[1].k = IF lastAction' = "regulations_retrieve" THEN 3 ELSE 20
            /\ Len(calls'[1].result.value) <= calls'[1].k
            /\ state'.retrieved =
                 [i \in 1..Len(calls'[1].result.value) |->
                    calls'[1].result.value[i].doc]
       /\ lastAction' \in {"generate", "rag_final"} =>
            state'.retrieved = state.retrieved
       /\ GateHalted' =>
            /\ IsBlankLineJoin(state'.context, state'.retrieved)
            /\ (\E i \in 1..Len(state'.retrieved) :
                    state'.retrieved[i] # EmptyText) => state'.context # EmptyText
    ]_vars

C22_Witness ==
    /\ GateHalted
    /\ GenerationFailed(state)
    /\ state.selected_tool = CALENDAR_TOOL
    /\ state.retrieved = <<Chunk(1), Chunk(2)>>
    /\ state.context = Chunk(1) \o <<"\n\n">> \o Chunk(2)

\* ======================================================= dry-run planning

\* C23: the dispatch node leaves the conversation memory unchanged and
\* executes no tool (no index search, no structured-data agent call, no
\* clock call): it only asks the planner, and only sets selected_tool and
\* the next_node routing decision.
C23_DispatchIsDryRun ==
    [][lastAction' = "route" =>
         /\ memory' = memory
         /\ Len(calls') = 1
         /\ calls'[1].callee = "plan"
         /\ calls'[1].input = state.query
         /\ IF fault' = "none"
            THEN /\ state' = [state EXCEPT !.selected_tool = state'.selected_tool,
                                           !.metadata = state'.metadata]
                 /\ DOMAIN state'.metadata = {"next_node"}
            ELSE state' = state
    ]_vars

C23_Witness ==
    /\ lastAction = "route"
    /\ fault = "none"
    /\ state.selected_tool = REGULATIONS_TOOL
    /\ memory # << >>
    /\ memory = memoryAtStart
    /\ state.output = None

\* ===================================================== query immutability

\* C24: the query is immutable for the lifetime of a run: every node
\* (dispatch, direct answer, both retrieval nodes, generation, confidence
\* gate, code review, code execution) returns a state whose query is the
\* query of its input state, so the state generate_response returns carries
\* the submitted query.
C24_QueryImmutable ==
    [][/\ lastAction' \in Nodes =>
            /\ state'.query = state.query
            /\ state'.query = arg'
       /\ lastAction' = "handle_query_submission" =>
            /\ session_state'["last_response"].query = arg
            /\ session_state'["last_query"] = arg
       /\ lastAction' = "handle_code_review" =>
            \A x \in generate_code_response(arg') :
                x.state.query = <<"execute this code on the dataframe:">> \o arg'
    ]_vars

C24_Witness ==
    /\ lastAction = "handle_query_submission"
    /\ nodesRun = <<"route", "default_node">>
    /\ session_state["last_response"].query = arg
    /\ session_state["last_response"].output \in AgentOutputs

\* ============================================ a new query while pending

\* the run of the query submitted last is over, halted or faulted
RunOver ==
    /\ pc = "idle"
    /\ lastAction \in Nodes \cup {"handle_query_submission"}

\* C25: a new query can always be submitted while an approval is pending:
\* it runs a fresh graph run from a new state with all optional fields
\* unset, it is not blocked by the stale pending approval, and it replaces
\* the stored last_query / last_response, so that a later Approve acts on
\* the run of the query submitted last.
C25_NewQueryReplacesPending ==
    /\ lastAction = "generate_response" =>
         /\ state = GraphState(arg)
         /\ pc = "route"
    /\ (RunOver /\ ApprovalUiShown) =>
         /\ session_state["last_query"] = arg
         /\ session_state["last_response"] = state

\* ================================================ pending text approval

PendingTextApproval ==
    /\ pc = "idle"
    /\ "last_response" \in DOMAIN session_state
    /\ session_state["last_response"].hitl_ui_needed

\* C26: whenever a text approval is pending, the last entry of the
\* conversation memory is the assistant answer produced for the pending
\* query, so that Approve replaces that query's own answer; after a run
\* whose generation failed and whose confidence is below 0.8, Approve never
\* overwrites the assistant entry of an earlier turn and never faults on an
\* empty memory.
C26_PendingAnswerIsLastEntry ==
    /\ PendingTextApproval =>
         /\ memory # << >>
         /\ Last(memory) = AIMessage(session_state["last_response"].output)
    /\ lastAction = "handle_approval_ui" => fault = "none"
=============================================================================
